---- MODULE Spec2Model ----
(***************************************************************************)
(* Model of gpu_img_features: the typed WGSL expression IR                 *)
(* (src/wgsl/expression.rs) and the host program that builds and drives    *)
(* the feature-extractor pipeline (src/main.rs).                           *)
(*                                                                         *)
(* Rendered text is modelled as a sequence of one-character strings, so    *)
(* that formatting is computed character by character.                     *)
(***************************************************************************)
EXTENDS Integers, Sequences, FiniteSets, TLC

VARIABLES acc, sav, last, steps,
          pc, trace, calls, hfi, submitted, done, forestPass

exprVars == <<acc, sav, last, steps>>
mainVars == <<pc, trace, calls, hfi, submitted, done, forestPass>>
vars == <<acc, sav, last, steps, pc, trace, calls, hfi, submitted, done, forestPass>>

(***************************************************************************)
(* Bounds of the model.                                                    *)
(***************************************************************************)
\* number of IR operations performed in one behaviour
MaxSteps == 3
\* largest highest_feature_idx a loaded forest is given
MaxFeatureIdx == 11

(***************************************************************************)
(* Text formatting (Rust's format! machinery as used by expression.rs).    *)
(***************************************************************************)
DigitChars == <<"0", "1", "2", "3", "4", "5", "6", "7", "8", "9">>

Digit(d) == DigitChars[d + 1]

RECURSIVE FmtNat(_)
\* "{value}" for an unsigned integer: decimal digits, no padding
FmtNat(n) == IF n < 10 THEN <<Digit(n)>> ELSE FmtNat(n \div 10) \o <<Digit(n % 10)>>

\* "{value}" for a signed integer
FmtInt(n) == IF n < 0 THEN <<"-">> \o FmtNat(0 - n) ELSE FmtNat(n)

RECURSIVE Zeros(_)
Zeros(k) == IF k <= 0 THEN <<>> ELSE <<"0">> \o Zeros(k - 1)

RECURSIVE DigitsText(_)
DigitsText(ds) == IF ds = <<>> THEN <<>> ELSE <<Digit(Head(ds))>> \o DigitsText(Tail(ds))

(***************************************************************************)
(* An f32 value is kept as its exact decimal expansion                     *)
(*   (-1)^neg * d1.d2d3... * 10^exp                                        *)
(* The literals used are dyadic rationals with at most three significant   *)
(* decimal digits, for which both formatters below print exactly these     *)
(* digits.                                                                 *)
(***************************************************************************)
F32(neg, digs, exp) == [neg |-> neg, digs |-> digs, exp |-> exp]

F32Sign(v) == IF v.neg THEN <<"-">> ELSE <<>>

\* number of fractional digits requested by "{value:.20e}"
FracDigits == 20

\* "{value:.20e}": one digit, ".", twenty digits, "e", the decimal exponent
FmtLowerExp(v) ==
    F32Sign(v) \o <<Digit(v.digs[1]), ".">> \o DigitsText(Tail(v.digs))
        \o Zeros(FracDigits - (Len(v.digs) - 1)) \o <<"e">> \o FmtInt(v.exp)

\* "{}" for an f32: shortest positional decimal, no exponent, no trailing ".0"
FmtDisplayF32(v) ==
    LET n == Len(v.digs) IN
    F32Sign(v) \o
    (IF v.exp >= n - 1
        THEN DigitsText(v.digs) \o Zeros(v.exp - (n - 1))
     ELSE IF v.exp >= 0
        THEN DigitsText(SubSeq(v.digs, 1, v.exp + 1)) \o <<".">>
                 \o DigitsText(SubSeq(v.digs, v.exp + 2, n))
     ELSE <<"0", ".">> \o Zeros((0 - v.exp) - 1) \o DigitsText(v.digs))

(***************************************************************************)
(* Type registry: ShaderTypeExt::wgsl_type_name of the semantic types.     *)
(***************************************************************************)
Scalars == {"f32", "u32", "i32"}

Vec3Types == {"FVec3", "UVec3"}

Vec4Types == {"FVec4", "UVec4"}

\* scalar item type of a vector type
ItemType(T) == IF T \in {"FVec2", "FVec3", "FVec4"} THEN "f32"
               ELSE IF T \in {"UVec2", "UVec3", "UVec4"} THEN "u32" ELSE "i32"

Vec2Of(item) == IF item = "f32" THEN "FVec2" ELSE IF item = "u32" THEN "UVec2" ELSE "IVec2"

Vec3Of(item) == IF item = "f32" THEN "FVec3" ELSE "UVec3"

Vec4Of(item) == IF item = "f32" THEN "FVec4" ELSE "UVec4"

ScalarName(item) == IF item = "f32" THEN <<"f", "3", "2">>
                    ELSE IF item = "u32" THEN <<"u", "3", "2">> ELSE <<"i", "3", "2">>

VecArity(T) == IF T \in {"FVec2", "UVec2", "IVec2"} THEN 2 ELSE IF T \in Vec3Types THEN 3 ELSE 4

wgsl_type_name(T) ==
    IF T \in Scalars THEN ScalarName(T)
    ELSE <<"v", "e", "c", Digit(VecArity(T)), "<">> \o ScalarName(ItemType(T)) \o <<">">>

(***************************************************************************)
(* Expression<T>: rendered text plus the phantom semantic type T.          *)
(***************************************************************************)
Expression(code, T) == [text |-> code, tag |-> T]

\* From<&Expression<u32>> for Expression<i32>: the text is kept, the tag changes
FromU32Ref(value) == Expression(value.text, "i32")

FromF32(value) == Expression(FmtLowerExp(value), "f32")

FromU32(value) == Expression(FmtNat(value), "u32")

FromI32(value) == Expression(FmtInt(value), "i32")

FromIVec2(value) ==
    Expression(wgsl_type_name("IVec2") \o <<"(">> \o FmtInt(value[1]) \o <<",", " ">>
                   \o FmtInt(value[2]) \o <<")">>, "IVec2")

FromFVec4(value) ==
    Expression(wgsl_type_name("FVec4") \o <<"(">> \o FmtDisplayF32(value[1]) \o <<",", " ">>
                   \o FmtDisplayF32(value[2]) \o <<",", " ">> \o FmtDisplayF32(value[3])
                   \o <<",", " ">> \o FmtDisplayF32(value[4]) \o <<")">>, "FVec4")

\* the type name is taken from FVec4 in the source
FromFVec3(value) ==
    Expression(wgsl_type_name("FVec4") \o <<"(">> \o FmtDisplayF32(value[1]) \o <<",", " ">>
                   \o FmtDisplayF32(value[2]) \o <<",", " ">> \o FmtDisplayF32(value[3])
                   \o <<")">>, "FVec3")

\* a literal handed to a conversion: its Rust type and its value
Lit(ty, val) == [kind |-> "lit", ty |-> ty, val |-> val]

\* an existing expression handed to an operation
Ref(e) == [kind |-> "expr", e |-> e]

\* the From impl selected for a literal of Rust type ty
Convert(ty, val) ==
    CASE ty = "f32" -> FromF32(val)
      [] ty = "u32" -> FromU32(val)
      [] ty = "i32" -> FromI32(val)
      [] ty = "IVec2" -> FromIVec2(val)
      [] ty = "FVec4" -> FromFVec4(val)
      [] ty = "FVec3" -> FromFVec3(val)

\* rhs.into() for a target Expression<T>
Into(arg, T) ==
    IF arg.kind = "lit" THEN Convert(arg.ty, arg.val)
    ELSE IF arg.e.tag = T THEN arg.e
    ELSE FromU32Ref(arg.e)

\* BinOp with the enclosing parentheses of the format string left out
BinOpNoParens(self, op_symbol, rhs) ==
    Expression(self.text \o <<" ">> \o op_symbol \o <<" ">> \o Into(rhs, self.tag).text, self.tag)

\* impl_Op_for_Expression: format!("({} {} {})", self.0, $op_symbol, rhs.into())
BinOp(self, op_symbol, rhs) ==
    Expression(<<"(">> \o self.text \o <<" ">> \o op_symbol \o <<" ">>
                   \o Into(rhs, self.tag).text \o <<")">>, self.tag)

\* Mul<&Expression<FVec4>> for Expression<f32>
MulF32ByFVec4(self, rhs) ==
    Expression(<<"(">> \o self.text \o <<" ", "*", " ">> \o rhs.text \o <<")">>, "FVec4")

\* Mul<f32> for Expression<FVec3>: rhs is written with "{rhs}"
MulFVec3ByF32(self, rhs) ==
    Expression(<<"(">> \o self.text \o <<" ", "*", " ">> \o FmtDisplayF32(rhs) \o <<")">>, "FVec3")

vec3_x(self) == Expression(self.text \o <<".", "x">>, ItemType(self.tag))

vec3_y(self) == Expression(self.text \o <<".", "y">>, ItemType(self.tag))

vec3_z(self) == Expression(self.text \o <<".", "z">>, ItemType(self.tag))

vec3_xy(self) == Expression(self.text \o <<".", "x", "y">>, Vec2Of(ItemType(self.tag)))

vec3_xyz1(self) ==
    Expression(<<"v", "e", "c", "4", "(">> \o self.text \o <<".", "x", "y", "z", ",", " ", "1", ")">>,
               Vec4Of(ItemType(self.tag)))

vec4_x(self) == Expression(self.text \o <<".", "x">>, ItemType(self.tag))

vec4_y(self) == Expression(self.text \o <<".", "y">>, ItemType(self.tag))

vec4_z(self) == Expression(self.text \o <<".", "z">>, ItemType(self.tag))

vec4_xyz(self) == Expression(self.text \o <<".", "x", "y", "z">>, Vec3Of(ItemType(self.tag)))

\* vec4 w() rendering the z component
vec4_w_as_z(self) == Expression(self.text \o <<".", "z">>, ItemType(self.tag))

vec4_w(self) == Expression(self.text \o <<".", "w">>, ItemType(self.tag))

\* clamped with the two bounds written in the opposite order
clampedSwapped(self, min, max) ==
    LET min_exp == Into(min, "i32")
        max_exp == Into(max, "i32")
    IN Expression(<<"c", "l", "a", "m", "p", "(">> \o self.text \o <<",", " ">> \o max_exp.text
                      \o <<",", " ">> \o min_exp.text \o <<")">>, "i32")

clamped(self, min, max) ==
    LET min_exp == Into(min, "i32")
        max_exp == Into(max, "i32")
    IN Expression(<<"c", "l", "a", "m", "p", "(">> \o self.text \o <<",", " ">> \o min_exp.text
                      \o <<",", " ">> \o max_exp.text \o <<")">>, "i32")

construct(x, y) ==
    Expression(wgsl_type_name("IVec2") \o <<"(">> \o Into(x, "i32").text \o <<",", " ">>
                   \o Into(y, "i32").text \o <<")">>, "IVec2")

(***************************************************************************)
(* Inputs of the expression IR: literals and variable references.          *)
(***************************************************************************)
\* 0.0, 0.5, -1.5, 1.0 and 10.0
F0 == F32(FALSE, <<0>>, 0)

FHalf == F32(FALSE, <<5>>, -1)

FNegOneHalf == F32(TRUE, <<1, 5>>, 0)

FOne == F32(FALSE, <<1>>, 0)

FTen == F32(FALSE, <<1>>, 1)

F32Lits == {FHalf, FNegOneHalf, FTen}

U32Lits == {0, 7}

I32Lits == {-3, 12}

IVec2Lits == {<<-1, 2>>}

FVec4Lits == {<<FOne, F0, FHalf, FNegOneHalf>>}

FVec3Lits == {<<FHalf, FTen, FNegOneHalf>>}

LitTypes == {"f32", "u32", "i32", "IVec2", "FVec4", "FVec3"}

LitsOf(T) ==
    CASE T = "f32" -> F32Lits
      [] T = "u32" -> U32Lits
      [] T = "i32" -> I32Lits
      [] T = "IVec2" -> IVec2Lits
      [] T = "FVec4" -> FVec4Lits
      [] T = "FVec3" -> FVec3Lits
      [] OTHER -> {}

\* variables of the generated kernel, referenced through Expression(name, PhantomData)
VarDecls ==
    { [name |-> <<"g", "i", "d">>, ty |-> "UVec3"],
      [name |-> <<"c">>, ty |-> "UVec4"],
      [name |-> <<"n">>, ty |-> "u32"] }

\* the arguments an operation on Expression<T> accepts through Into<Expression<T>>:
\* a literal of T, the saved Expression<T>, and for T = i32 a saved Expression<u32>
Operands(T) ==
    {Lit(T, v) : v \in LitsOf(T)}
        \cup {Ref(e) : e \in {s \in {sav[i] : i \in 1..Len(sav)} :
                                 s.tag = T \/ (T = "i32" /\ s.tag = "u32")}}

NoOp == [op |-> "none", recv |-> <<>>, args |-> <<>>]

(***************************************************************************)
(* Operations of the expression IR.  acc holds the expression built last,  *)
(* sav a clone of an earlier one; last records the operation that built    *)
(* acc together with its inputs.                                           *)
(***************************************************************************)
Emit(e, op, recv, args) ==
    /\ acc' = <<e>>
    /\ last' = [op |-> op, recv |-> recv, args |-> args]
    /\ steps' = steps + 1
    /\ UNCHANGED <<sav, pc, trace, calls, hfi, submitted, done, forestPass>>

\* Expression::from(literal)
FromLiteral ==
    /\ steps < MaxSteps
    /\ \E T \in LitTypes : \E v \in LitsOf(T) :
           Emit(Convert(T, v), "from", <<>>, <<Lit(T, v)>>)

\* Expression(name.into(), PhantomData)
NewVar ==
    /\ steps < MaxSteps
    /\ \E d \in VarDecls : Emit(Expression(d.name, d.ty), "var", <<>>, <<>>)

\* Expression::<i32>::from(&acc)
RetagU32 ==
    /\ steps < MaxSteps
    /\ Len(acc) = 1 /\ acc[1].tag = "u32"
    /\ Emit(FromU32Ref(acc[1]), "from_u32_ref", acc, <<>>)

\* acc.clone()
Clone ==
    /\ Len(acc) = 1
    /\ sav # acc
    /\ sav' = acc
    /\ UNCHANGED <<acc, last, steps, pc, trace, calls, hfi, submitted, done, forestPass>>

Add ==
    /\ steps < MaxSteps
    /\ Len(acc) = 1
    /\ \E rhs \in Operands(acc[1].tag) :
           Emit(BinOp(acc[1], <<"+">>, rhs), "add", acc, <<rhs>>)

Sub ==
    /\ steps < MaxSteps
    /\ Len(acc) = 1
    /\ \E rhs \in Operands(acc[1].tag) :
           Emit(BinOp(acc[1], <<"-">>, rhs), "sub", acc, <<rhs>>)

Mul ==
    /\ steps < MaxSteps
    /\ Len(acc) = 1
    /\ \E rhs \in Operands(acc[1].tag) :
           Emit(BinOp(acc[1], <<"*">>, rhs), "mul", acc, <<rhs>>)

MulScalarVec4 ==
    /\ steps < MaxSteps
    /\ Len(acc) = 1 /\ acc[1].tag = "f32"
    /\ Len(sav) = 1 /\ sav[1].tag = "FVec4"
    /\ Emit(MulF32ByFVec4(acc[1], sav[1]), "mul_f32_fvec4", acc, <<Ref(sav[1])>>)

MulVec3Scalar ==
    /\ steps < MaxSteps
    /\ Len(acc) = 1 /\ acc[1].tag = "FVec3"
    /\ \E rhs \in F32Lits :
           Emit(MulFVec3ByF32(acc[1], rhs), "mul_fvec3_f32", acc, <<Lit("f32", rhs)>>)

Vec3Access ==
    /\ steps < MaxSteps
    /\ Len(acc) = 1 /\ acc[1].tag \in Vec3Types
    /\ \/ Emit(vec3_x(acc[1]), "x", acc, <<>>)
       \/ Emit(vec3_y(acc[1]), "y", acc, <<>>)
       \/ Emit(vec3_z(acc[1]), "z", acc, <<>>)
       \/ Emit(vec3_xy(acc[1]), "xy", acc, <<>>)
       \/ Emit(vec3_xyz1(acc[1]), "xyz1", acc, <<>>)

Vec4Access ==
    /\ steps < MaxSteps
    /\ Len(acc) = 1 /\ acc[1].tag \in Vec4Types
    /\ \/ Emit(vec4_x(acc[1]), "x", acc, <<>>)
       \/ Emit(vec4_y(acc[1]), "y", acc, <<>>)
       \/ Emit(vec4_z(acc[1]), "z", acc, <<>>)
       \/ Emit(vec4_xyz(acc[1]), "xyz", acc, <<>>)
       \/ Emit(vec4_w(acc[1]), "w", acc, <<>>)

Clamped ==
    /\ steps < MaxSteps
    /\ Len(acc) = 1 /\ acc[1].tag = "i32"
    /\ \E min \in Operands("i32") : \E max \in Operands("i32") :
           Emit(clamped(acc[1], min, max), "clamped", acc, <<min, max>>)

Construct ==
    /\ steps < MaxSteps
    /\ \E x \in Operands("i32") : \E y \in Operands("i32") :
           Emit(construct(x, y), "construct", <<>>, <<x, y>>)

(***************************************************************************)
(* The host program (main.rs): main and make_pipeline.                     *)
(*                                                                         *)
(* pc is the position in main, trace the stages run so far with their      *)
(* results, calls the number of backend calls of each kind, hfi the        *)
(* loaded forest's highest_feature_idx.  submitted, done and forestPass    *)
(* are the device's view of the passes of the process call.                *)
(***************************************************************************)
\* kernels.len(): the ten GaussianBlur specs listed in main
NumKernels == 10

\* highest_feature_idx of a forest without splits
NoSplits == -1

Kernels == 1..NumKernels

CallNames == {"request_adapter", "get_downlevel_capabilities", "request_device",
              "compile_program", "create_buffer", "dispatch", "submit", "map_for_read"}

\* the forests a run may load, by their highest_feature_idx
HfiValues == {NoSplits, 0, NumKernels - 1, NumKernels, MaxFeatureIdx}

Called(c, n) == [calls EXCEPT ![c] = @ + n]

Entry(stage, result) == [stage |-> stage, result |-> result]

\* a stage that runs in one step and ends with the given result
Stage(from, stage, result, to) ==
    /\ pc = from
    /\ trace' = Append(trace, Entry(stage, result))
    /\ pc' = IF result = "ok" THEN to ELSE "aborted"

\* the stage begun last ends with the given result
EndStage(result, to) ==
    /\ trace' = [trace EXCEPT ![Len(trace)].result = result]
    /\ pc' = IF result = "ok" THEN to ELSE "aborted"

\* RandomForest::from_dir(..).unwrap()
LoadForest ==
    /\ \/ /\ Stage("start", "forest_load", "ok", "load_image")
          /\ hfi' \in HfiValues
       \/ /\ Stage("start", "forest_load", "io_error", "load_image")
          /\ UNCHANGED hfi
    /\ UNCHANGED <<calls, submitted, done, forestPass, acc, sav, last, steps>>

\* load_image that goes on to the next stage whatever the result
LoadImageIgnoringFailure ==
    /\ pc = "load_image"
    /\ \E r \in {"ok", "io_error"} : trace' = Append(trace, Entry("image_load", r))
    /\ pc' = "request_adapter"
    /\ UNCHANGED <<calls, hfi, submitted, done, forestPass, acc, sav, last, steps>>

\* image::io::Reader::open(..).unwrap().decode().unwrap()
LoadImage ==
    /\ \E r \in {"ok", "io_error"} : Stage("load_image", "image_load", r, "request_adapter")
    /\ UNCHANGED <<calls, hfi, submitted, done, forestPass, acc, sav, last, steps>>

\* request_adapter re-issued once after a failure before giving up
RequestAdapterRetry ==
    /\ \/ /\ Stage("request_adapter", "adapter", "ok", "check_caps")
          /\ calls' = Called("request_adapter", 1)
       \/ /\ Stage("request_adapter", "adapter", "backend_error", "check_caps")
          /\ calls' = Called("request_adapter", 2)
    /\ UNCHANGED <<hfi, submitted, done, forestPass, acc, sav, last, steps>>

\* instance.request_adapter(..).block_on().expect("Failed to create adapter")
RequestAdapter ==
    /\ \E r \in {"ok", "backend_error"} : Stage("request_adapter", "adapter", r, "check_caps")
    /\ calls' = Called("request_adapter", 1)
    /\ UNCHANGED <<hfi, submitted, done, forestPass, acc, sav, last, steps>>

\* get_downlevel_capabilities(); panic! unless COMPUTE_SHADERS is set
CheckCapabilities ==
    /\ \E r \in {"ok", "backend_error"} : Stage("check_caps", "capability", r, "request_device")
    /\ calls' = Called("get_downlevel_capabilities", 1)
    /\ UNCHANGED <<hfi, submitted, done, forestPass, acc, sav, last, steps>>

\* adapter.request_device(..).block_on().expect("Failed to create device")
RequestDevice ==
    /\ \E r \in {"ok", "backend_error"} : Stage("request_device", "device", r, "pipeline_new")
    /\ calls' = Called("request_device", 1)
    /\ UNCHANGED <<hfi, submitted, done, forestPass, acc, sav, last, steps>>

\* the programs compiled and the buffers created by a construction that gets
\* through: one program per kernel and the forest program; the input buffer,
\* one feature buffer per kernel and the output buffer
NumPrograms == NumKernels + 1

NumBuffers == NumKernels + 2

\* construction that allocates its buffers before it validates the forest
PipelineNewAllocatingFirst ==
    /\ \/ /\ hfi >= NumKernels
          /\ Stage("pipeline_new", "construct", "validation_error", "process")
          /\ calls' = Called("create_buffer", NumBuffers)
       \/ /\ hfi < NumKernels
          /\ Stage("pipeline_new", "construct", "ok", "process")
          /\ calls' = [calls EXCEPT !["compile_program"] = @ + NumPrograms,
                                    !["create_buffer"] = @ + NumBuffers]
    /\ UNCHANGED <<hfi, submitted, done, forestPass, acc, sav, last, steps>>

\* FeatureExtractorPipeline::new: validate highest_feature_idx against the number
\* of kernels, then generate and compile the kernels, then allocate the buffers
PipelineNew ==
    /\ \/ /\ hfi >= NumKernels
          /\ Stage("pipeline_new", "construct", "validation_error", "process")
          /\ UNCHANGED calls
       \/ /\ hfi < NumKernels
          /\ Stage("pipeline_new", "construct", "backend_error", "process")
          /\ \E k \in {1, NumPrograms} : calls' = Called("compile_program", k)
       \/ /\ hfi < NumKernels
          /\ Stage("pipeline_new", "construct", "backend_error", "process")
          /\ \E j \in {1, NumBuffers} :
                 calls' = [calls EXCEPT !["compile_program"] = @ + NumPrograms,
                                        !["create_buffer"] = @ + j]
       \/ /\ hfi < NumKernels
          /\ Stage("pipeline_new", "construct", "ok", "process")
          /\ calls' = [calls EXCEPT !["compile_program"] = @ + NumPrograms,
                                    !["create_buffer"] = @ + NumBuffers]
    /\ UNCHANGED <<hfi, submitted, done, forestPass, acc, sav, last, steps>>

\* pipeline.process(&image): the image is uploaded and the passes are encoded
ProcessBegin ==
    /\ pc = "process"
    /\ pc' = "dispatching"
    /\ trace' = Append(trace, Entry("process", "running"))
    /\ submitted' = {}
    /\ done' = {}
    /\ forestPass' = "none"
    /\ UNCHANGED <<calls, hfi, acc, sav, last, steps>>

\* one blur pass per kernel is dispatched, in any relative order
SubmitBlur ==
    /\ pc = "dispatching"
    /\ \E k \in Kernels \ submitted : submitted' = submitted \cup {k}
    /\ calls' = Called("dispatch", 1)
    /\ UNCHANGED <<pc, trace, hfi, done, forestPass, acc, sav, last, steps>>

\* the forest-evaluation pass is dispatched behind the barrier and the work is
\* submitted; the host goes on to the blocking read-back
SubmitForest ==
    /\ pc = "dispatching"
    /\ submitted = Kernels
    /\ forestPass' = "queued"
    /\ calls' = [calls EXCEPT !["dispatch"] = @ + 1, !["submit"] = @ + 1]
    /\ pc' = "readback"
    /\ UNCHANGED <<trace, hfi, submitted, done, acc, sav, last, steps>>

\* the device finishes a blur pass it was given
CompleteBlur ==
    /\ \E k \in submitted \ done : done' = done \cup {k}
    /\ UNCHANGED <<pc, trace, calls, hfi, submitted, forestPass, acc, sav, last, steps>>

\* the device starting the forest pass as soon as it is queued
BeginForestNoBarrier ==
    /\ forestPass = "queued"
    /\ forestPass' = "running"
    /\ UNCHANGED <<pc, trace, calls, hfi, submitted, done, acc, sav, last, steps>>

\* the device starts the forest pass once the barrier lets it through
BeginForest ==
    /\ forestPass = "queued"
    /\ done = Kernels
    /\ forestPass' = "running"
    /\ UNCHANGED <<pc, trace, calls, hfi, submitted, done, acc, sav, last, steps>>

CompleteForest ==
    /\ forestPass = "running"
    /\ forestPass' = "done"
    /\ UNCHANGED <<pc, trace, calls, hfi, submitted, done, acc, sav, last, steps>>

\* map_for_read of the output buffer; process(..).unwrap() in main
ReadBack ==
    /\ pc = "readback"
    /\ \/ forestPass = "done" /\ EndStage("ok", "save")
       \/ EndStage("backend_error", "save")
    /\ calls' = Called("map_for_read", 1)
    /\ UNCHANGED <<hfi, submitted, done, forestPass, acc, sav, last, steps>>

\* the predictions are converted to RGBA bytes and saved
SaveOutput ==
    /\ \E r \in {"ok", "io_error"} : Stage("save", "save", r, "exit")
    /\ UNCHANGED <<calls, hfi, submitted, done, forestPass, acc, sav, last, steps>>

Init ==
    /\ acc = <<>>
    /\ sav = <<>>
    /\ last = NoOp
    /\ steps = 0
    /\ pc = "start"
    /\ trace = <<>>
    /\ calls = [c \in CallNames |-> 0]
    /\ hfi = NoSplits
    /\ submitted = {}
    /\ done = {}
    /\ forestPass = "none"

NextExpr ==
    \/ FromLiteral
    \/ NewVar
    \/ RetagU32
    \/ Clone
    \/ Add
    \/ Sub
    \/ Mul
    \/ MulScalarVec4
    \/ MulVec3Scalar
    \/ Vec3Access
    \/ Vec4Access
    \/ Clamped
    \/ Construct

SpecExpr == Init /\ [][NextExpr]_vars

(***************************************************************************)
(* Properties of the expression IR.                                        *)
(***************************************************************************)
IsPrefix(p, t) == Len(p) <= Len(t) /\ SubSeq(t, 1, Len(p)) = p

\* text(b): b's own text, or for a literal the text of its conversion
ArgText(arg) == IF arg.kind = "lit" THEN Convert(arg.ty, arg.val).text ELSE arg.e.text

BinaryOps == {"add", "sub", "mul", "mul_f32_fvec4", "mul_fvec3_f32"}

OpSymbol(op) == IF op = "add" THEN <<"+">> ELSE IF op = "sub" THEN <<"-">> ELSE <<"*">>

Rendered(a, sym, b) == <<"(">> \o a \o <<" ">> \o sym \o <<" ">> \o b \o <<")">>

\* C1: the result of every binary operator, the two mixed forms included, reads
\* "(" text(a) " " OP " " text(b) ")", a literal right operand being rendered as
\* its conversion to an Expression
C1_OperatorText ==
    last.op \in BinaryOps =>
        acc[1].text = Rendered(last.recv[1].text, OpSymbol(last.op), ArgText(last.args[1]))

\* the same statement without the form Expression<FVec3> * f32
C1_OperatorTextExceptVec3Scalar ==
    last.op \in BinaryOps \ {"mul_fvec3_f32"} =>
        acc[1].text = Rendered(last.recv[1].text, OpSymbol(last.op), ArgText(last.args[1]))

RECURSIVE DepthSeq(_, _)
\* the parenthesis depth at each character: for "(" the depth it opens, for ")"
\* the depth it returns to
DepthSeq(t, d) ==
    IF t = <<>> THEN <<>>
    ELSE LET nd == IF Head(t) = "(" THEN d + 1 ELSE IF Head(t) = ")" THEN d - 1 ELSE d
         IN <<nd>> \o DepthSeq(Tail(t), nd)

\* a complete operand: balanced parentheses, and outside every parenthesis no
\* separator and no binary operator (a "-" outside parentheses is the sign of a
\* literal or of its exponent)
SelfContained(t) ==
    LET ds == DepthSeq(t, 0) IN
    /\ Len(t) > 0
    /\ ds[Len(t)] = 0
    /\ \A i \in 1..Len(t) :
          /\ ds[i] >= 0
          /\ t[i] \in {" ", ",", "+", "*"} => ds[i] >= 1
          /\ (t[i] = "-" /\ ds[i] = 0) => (i = 1 \/ t[i - 1] = "e")

Built == {acc[i] : i \in 1..Len(acc)} \cup {sav[i] : i \in 1..Len(sav)}

\* C2: every expression built is a complete self-contained operand
C2_SelfContainedOperand == \A e \in Built : SelfContained(e.text)

\* an operator applied to a parenthesised left operand and a parenthesised right one
C2_Witness ==
    /\ last.op \in {"add", "sub", "mul"}
    /\ Head(last.recv[1].text) = "("
    /\ last.args[1].kind = "expr"
    /\ Head(last.args[1].e.text) = "("

ComponentText(ty, c) == IF ty = "IVec2" THEN FmtInt(c) ELSE FmtDisplayF32(c)

RECURSIVE JoinComponents(_, _)
JoinComponents(ty, cs) ==
    IF Len(cs) = 1 THEN ComponentText(ty, cs[1])
    ELSE ComponentText(ty, Head(cs)) \o <<",", " ">> \o JoinComponents(ty, Tail(cs))

\* C3: a vector literal converts to the registry name of its own type followed by
\* its components, in order, in parentheses and separated by ", "
C3_VectorLiteralText ==
    (last.op = "from" /\ last.args[1].ty \in {"IVec2", "FVec3", "FVec4"}) =>
        acc[1].text = wgsl_type_name(last.args[1].ty) \o <<"(">>
                          \o JoinComponents(last.args[1].ty, last.args[1].val) \o <<")">>

VectorTypes == {"IVec2", "UVec2", "FVec2", "UVec3", "FVec3", "UVec4", "FVec4"}

\* the kernel-language type of a text, where the text alone decides it: a
\* declared variable has its declared type, a registry constructor call the
\* type it names
KernelTypeOf(t) ==
    {d.ty : d \in {v \in VarDecls : v.name = t}}
        \cup {T \in VectorTypes : IsPrefix(wgsl_type_name(T) \o <<"(">>, t)}

\* C4: the tag of every expression built is the kernel-language type of its text
C4_TagIsKernelType == \A e \in Built : \A K \in KernelTypeOf(e.text) : K = e.tag

\* C5: clamped renders clamp(value, lower bound, upper bound)
C5_ClampText ==
    last.op = "clamped" =>
        acc[1].text = <<"c", "l", "a", "m", "p", "(">> \o last.recv[1].text \o <<",", " ">>
                          \o ArgText(last.args[1]) \o <<",", " ">> \o ArgText(last.args[2])
                          \o <<")">>

\* clamped applied to a composite value with two different bounds
C5_Witness ==
    /\ last.op = "clamped"
    /\ Head(last.recv[1].text) = "("
    /\ ArgText(last.args[1]) # ArgText(last.args[2])

Accessors == {"x", "y", "z", "w", "xy", "xyz"}

Suffix(op) ==
    CASE op = "x" -> <<".", "x">>
      [] op = "y" -> <<".", "y">>
      [] op = "z" -> <<".", "z">>
      [] op = "w" -> <<".", "w">>
      [] op = "xy" -> <<".", "x", "y">>
      [] op = "xyz" -> <<".", "x", "y", "z">>

\* C6: an accessor or swizzle renders the receiver's text followed by its suffix;
\* xyz1 renders a vec4 constructor over the receiver's .xyz and the component 1
C6_AccessorText ==
    /\ last.op \in Accessors => acc[1].text = last.recv[1].text \o Suffix(last.op)
    /\ last.op = "xyz1" =>
           acc[1].text = <<"v", "e", "c", "4", "(">> \o last.recv[1].text
                             \o <<".", "x", "y", "z", ",", " ", "1", ")">>

\* w() taken of a 4-vector that is itself the result of xyz1
C6_Witness ==
    /\ last.op = "w"
    /\ IsPrefix(<<"v", "e", "c", "4", "(">>, last.recv[1].text)

Next ==
    \/ LoadForest
    \/ LoadImage
    \/ RequestAdapter
    \/ CheckCapabilities
    \/ RequestDevice
    \/ PipelineNew
    \/ ProcessBegin
    \/ SubmitBlur
    \/ SubmitForest
    \/ CompleteBlur
    \/ BeginForest
    \/ CompleteForest
    \/ ReadBack
    \/ SaveOutput

Spec == Init /\ [][Next]_vars

(***************************************************************************)
(* Properties of the host program.                                         *)
(***************************************************************************)
\* C7: the forest-evaluation pass has begun only if every blur pass dispatched
\* by the process call has completed
C7_ForestAfterAllBlur ==
    forestPass \in {"running", "done"} => (submitted = Kernels /\ done = Kernels)

\* the forest pass is running, every blur pass having completed
C7_Witness == forestPass = "running" /\ done = Kernels /\ pc = "readback"

ValidationFailed ==
    Len(trace) > 0 /\ trace[Len(trace)] = Entry("construct", "validation_error")

Constructing == \E i \in 1..Len(trace) : trace[i].stage = "construct"

\* C8 as stated: construction from a forest with highest_feature_idx >= the number
\* of kernels fails with a validation error, and no device call of any kind,
\* adapter and device acquisition included, has been made by then
C8_NoDeviceCallAtAll ==
    (Constructing /\ hfi >= NumKernels) =>
        (ValidationFailed /\ \A c \in CallNames : calls[c] = 0)

\* C8 amended: construction from such a forest fails with a validation error, and
\* no buffer creation, program compilation, dispatch or submit has been made by
\* then; the adapter and the device were each acquired once before construction
C8_NoDeviceWorkAfterAcquisition ==
    (Constructing /\ hfi >= NumKernels) =>
        /\ ValidationFailed
        /\ pc = "aborted"
        /\ \A c \in {"create_buffer", "compile_program", "dispatch", "submit", "map_for_read"} :
               calls[c] = 0
        /\ calls["request_adapter"] = 1
        /\ calls["request_device"] = 1

\* construction failed validation for a forest that references a missing feature
C8_Witness == ValidationFailed /\ hfi >= NumKernels /\ pc = "aborted"

BackendStages == {"adapter", "capability", "device"}

CallOf(stage) ==
    CASE stage = "adapter" -> "request_adapter"
      [] stage = "capability" -> "get_downlevel_capabilities"
      [] stage = "device" -> "request_device"

\* the backend calls that follow a stage of make_pipeline
LaterCalls(stage) ==
    CASE stage = "adapter" -> CallNames \ {"request_adapter"}
      [] stage = "capability" -> CallNames \ {"request_adapter", "get_downlevel_capabilities"}
      [] stage = "device" ->
             CallNames \ {"request_adapter", "get_downlevel_capabilities", "request_device"}

\* C9: when adapter acquisition, the capability check or device acquisition fails,
\* the run has aborted at that step, the failed request was issued exactly once,
\* no later backend call was made and no pipeline was constructed
C9_BackendFailureFatal ==
    \A i \in 1..Len(trace) :
        (trace[i].stage \in BackendStages /\ trace[i].result # "ok") =>
            /\ i = Len(trace)
            /\ pc = "aborted"
            /\ calls[CallOf(trace[i].stage)] = 1
            /\ \A c \in LaterCalls(trace[i].stage) : calls[c] = 0
            /\ ~Constructing

\* device acquisition failed after the adapter and its capabilities were obtained
C9_Witness ==
    /\ Len(trace) = 5
    /\ trace[5] = Entry("device", "backend_error")
    /\ trace[3].result = "ok"

StageOrder ==
    <<"forest_load", "image_load", "adapter", "capability", "device", "construct",
      "process", "save">>

\* C10: the stages run in the fixed order, each at most once and only after every
\* earlier stage succeeded; a failed stage is the last one run and ends the run;
\* the output is saved only after process returned its result
C10_StagesInOrder ==
    /\ Len(trace) <= Len(StageOrder)
    /\ \A i \in 1..Len(trace) :
          /\ trace[i].stage = StageOrder[i]
          /\ i < Len(trace) => trace[i].result = "ok"
    /\ (Len(trace) > 0 /\ trace[Len(trace)].result \notin {"ok", "running"}) => pc = "aborted"
    /\ pc = "aborted" => (Len(trace) > 0 /\ trace[Len(trace)].result \notin {"ok", "running"})
    /\ (pc \in {"dispatching", "readback"}) <=>
           (Len(trace) = 7 /\ trace[7] = Entry("process", "running"))
    /\ pc = "exit" => trace[Len(trace)] = Entry("save", "ok")

\* a run that went through every stage and saved its output
C10_Witness == pc = "exit" /\ Len(trace) = 8 /\ forestPass = "done"

====
